---- MODULE Spec2Model ----
(***************************************************************************)
(* Cart and checkout service of amerta-coffee-api                          *)
(* (src/src/services/cart.ts, helpers of src/unnamed/part_001).            *)
(*                                                                         *)
(* The relational store is PostgreSQL reached through Prisma.  No call of  *)
(* db.$transaction passes an isolation level, so every transaction runs at *)
(* the store's default, READ COMMITTED: each statement reads the rows      *)
(* committed when it starts, writes stay private to their transaction      *)
(* until COMMIT, a thrown error rolls all of them back, and an UPDATE      *)
(* holds a row lock until the transaction ends.  The committed rows are    *)
(* the variables carts .. transactions; tx[r] holds what request r has     *)
(* read and the writes it has pending; pc[r] is the statement it awaits.   *)
(***************************************************************************)
EXTENDS Integers, Sequences, FiniteSets, TLC

\* ------------------------------------------------------------------ bounds
MaxQty == 2        \* largest quantity a request carries
MaxOrders == 2     \* checkouts admitted in one behaviour
MaxTokens == 3     \* UserToken rows stored in one behaviour

Requests == {"r1", "r2"}                 \* concurrently served HTTP requests
Users == {"u1", "u2"}
Client == [r1 |-> "u1", r2 |-> "u2"]     \* each user sends one request at a time
Products == {"p1", "p2"}                 \* product rows of the shop
NameRank == [p1 |-> 1, p2 |-> 2, p3 |-> 3]   \* alphabetical rank of products.name
ProductIds == Products \cup {"px"}       \* "px": id of no product
AddressOwner == [a1 |-> "u1", a2 |-> "u2"]   \* user_addresses rows
AddressIds == {"a1", "a9"}               \* "a9": id of no address
\* products.price is a decimal of two fraction digits, held as its number of
\* hundredths: 4500000 is 45000.00
Prices == {4500000, 3000000}
InitStock == [p1 |-> 2, p2 |-> 1]        \* seeded products.stockQty
InitPrice == [p1 |-> 4500000, p2 |-> 3000000]
Invoices == {"INV-A", "INV-B"}           \* values nanoid(6) may return

EmptyMap == [x \in {} |-> 0]

JwtIds == 1..MaxTokens                   \* values crypto.randomUUID() returns
\* what UAParser reads in a User-Agent header: the browser name, the name of
\* the operating system and parseFloat of its version
ChromeWin10 == [browser |-> "Chrome", os |-> "Windows", version |-> 10]
ChromeWin11 == [browser |-> "Chrome", os |-> "Windows", version |-> 11]
FirefoxWin10 == [browser |-> "Firefox", os |-> "Windows", version |-> 10]
NoUserAgent == [browser |-> "", os |-> "", version |-> 0]   \* no header: undefined
\* the UserToken row of a login of u1 (auth.ts:87-95): jwtId, its user, the
\* user agent of the login; expired: expiresAt is past; jwtExpired: the exp
\* claim of the refresh token signed for the row is past
InitTokens ==
    [j \in {1} |-> [userId |-> "u1", revoked |-> FALSE, userAgent |-> ChromeWin10,
                    expired |-> FALSE, jwtExpired |-> FALSE]]

VARIABLES
    carts,          \* users owning a Cart row
    cartItems,      \* cartItems[u]: productId -> quantity, the CartItem rows of u's cart
    stockQty,       \* products.stockQty
    price,          \* products.price, in hundredths
    orders,         \* committed Order rows (with their OrderItems), in commit order
    transactions,   \* committed Transaction rows
    userTokens,     \* userTokens[j]: the UserToken row with jwtId j
    pc,             \* pc[r]: the statement request r is about to issue
    tx,             \* tx[r]: locals and pending writes of request r
    res             \* what the step just taken returned to its caller, if it returned

db == <<carts, cartItems, stockQty, price, orders, transactions, userTokens>>
vars == <<carts, cartItems, stockQty, price, orders, transactions, userTokens,
         pc, tx, res>>

\* ---------------------------------------------------- JavaScript numbers
\* A number of the service is a non-negative finite binary64.  An integer
\* below 2^31 is held as [e |-> n, m |-> <<>>]; any other value as
\* [e, m] with m its 53 significand bits, most significant (a 1) first, and
\* value m * 2^e.  Sums and products are the exact result rounded to nearest,
\* ties to even; on integers below 2^31 that is the integer result itself.
MantissaBits == 53
FractionBits == 64     \* quotient digits kept before rounding a decimal

Int32(n) == [e |-> n, m |-> <<>>]
IsInt32(x) == x.m = <<>>

Zeros(k) == [i \in 1..k |-> 0]

\* the binary digits of n, most significant first, for 0 <= n < 2^31
StripZeros(bits) ==
    IF \A i \in 1..Len(bits) : bits[i] = 0 THEN <<>>
    ELSE LET first == CHOOSE i \in 1..Len(bits) :
                          bits[i] = 1 /\ \A j \in 1..(i - 1) : bits[j] = 0
         IN  SubSeq(bits, first, Len(bits))

BitsOf(n) == StripZeros([i \in 1..31 |-> (n \div 2^(31 - i)) % 2])

RECURSIVE ValueOf(_)
ValueOf(bits) ==
    IF Len(bits) = 0 THEN 0
    ELSE IF Len(bits) = 1 THEN bits[1]
    ELSE LET h == Len(bits) \div 2
         IN  ValueOf(SubSeq(bits, 1, h)) * 2^(Len(bits) - h)
               + ValueOf(SubSeq(bits, h + 1, Len(bits)))

\* a + b, both most significant first; the carry into a place is 1 when some
\* lower place generates one and every place between passes it on
AddBits(a, b) ==
    LET n == (IF Len(a) > Len(b) THEN Len(a) ELSE Len(b)) + 1
        A == Zeros(n - Len(a)) \o a
        B == Zeros(n - Len(b)) \o b
        carry(i) == IF \E j \in (i + 1)..n :
                          /\ A[j] = 1 /\ B[j] = 1
                          /\ \A k \in (i + 1)..(j - 1) : A[k] # B[k]
                    THEN 1 ELSE 0
    IN  StripZeros([i \in 1..n |-> (A[i] + B[i] + carry(i)) % 2])

\* bits * q for an integer q >= 1
RECURSIVE MulBits(_, _)
MulBits(bits, q) ==
    IF q = 1 THEN bits ELSE AddBits(bits, MulBits(bits, q - 1))

\* 2^k mod 100
RECURSIVE Pow2Mod100(_)
Pow2Mod100(k) ==
    IF k <= 24 THEN (2^k) % 100 ELSE (Pow2Mod100(k - 24) * (2^24 % 100)) % 100

\* k binary fraction digits of r / 100 (0 <= r < 100) and whether a remainder is left
FractionOf(r, k) ==
    [bits |-> [i \in 1..k |-> IF 2 * ((r * Pow2Mod100(i - 1)) % 100) >= 100 THEN 1 ELSE 0],
     sticky |-> (r * Pow2Mod100(k)) % 100 # 0]

\* exact value bits * 2^e (+ something below the last bit when sticky)
Dyadic(x) ==
    IF IsInt32(x) THEN [bits |-> BitsOf(x.e), e |-> 0, sticky |-> FALSE]
    ELSE [bits |-> x.m, e |-> x.e, sticky |-> FALSE]

\* round to nearest, ties to even, to MantissaBits significant bits
Round(d) ==
    LET n == Len(d.bits)
    IN  IF n <= MantissaBits
        THEN [e |-> d.e - (MantissaBits - n), m |-> d.bits \o Zeros(MantissaBits - n)]
        ELSE LET keep == SubSeq(d.bits, 1, MantissaBits)
                 guard == d.bits[MantissaBits + 1]
                 rest == d.sticky \/ \E i \in (MantissaBits + 2)..n : d.bits[i] = 1
                 up == guard = 1 /\ (rest \/ keep[MantissaBits] = 1)
                 inc == IF up THEN AddBits(keep, <<1>>) ELSE keep
             IN  IF Len(inc) > MantissaBits
                 THEN [e |-> d.e + (n - MantissaBits) + 1, m |-> SubSeq(inc, 1, MantissaBits)]
                 ELSE [e |-> d.e + (n - MantissaBits), m |-> inc]

\* integers below 2^31 are held as such
Canon(x) ==
    LET ibits == MantissaBits + x.e
    IN  IF x.e < 0 /\ ibits >= 1 /\ ibits <= 31
           /\ \A i \in (ibits + 1)..MantissaBits : x.m[i] = 0
        THEN Int32(ValueOf(SubSeq(x.m, 1, ibits)))
        ELSE x

\* Number(price) of a decimal of c hundredths: the binary64 nearest to c / 100
Number(c) ==
    IF c % 100 = 0 THEN Int32(c \div 100)
    ELSE LET f == FractionOf(c % 100, FractionBits)
         IN  Canon(Round([bits |-> StripZeros(BitsOf(c \div 100) \o f.bits),
                          e |-> 0 - FractionBits, sticky |-> f.sticky]))

\* q * x for an integer q >= 0
F64Mul(q, x) ==
    IF q = 0 \/ x = Int32(0) THEN Int32(0)
    ELSE IF IsInt32(x) /\ x.e <= 2147483647 \div q THEN Int32(q * x.e)
    ELSE LET d == Dyadic(x)
         IN  Canon(Round([bits |-> MulBits(d.bits, q), e |-> d.e, sticky |-> FALSE]))

F64Add(x, y) ==
    IF x = Int32(0) THEN y
    ELSE IF y = Int32(0) THEN x
    ELSE IF IsInt32(x) /\ IsInt32(y) /\ x.e <= 2147483647 - y.e THEN Int32(x.e + y.e)
    ELSE LET a == Dyadic(x)
             b == Dyadic(y)
             lo == IF a.e < b.e THEN a.e ELSE b.e
         IN  Canon(Round([bits |-> AddBits(a.bits \o Zeros(a.e - lo),
                                           b.bits \o Zeros(b.e - lo)),
                          e |-> lo, sticky |-> FALSE]))

\* ------------------------------------------------------------- pure helpers
\* validateProductStock reporting the first offending item only
insufficientStockFirst(items, productStock) ==
    LET all == {p \in DOMAIN items :
                   p \in DOMAIN productStock /\ productStock[p] < items[p]}
    IN  IF all = {} THEN {} ELSE {CHOOSE p \in all : TRUE}

\* part_001:28-41.  productStock[id] of an id the map lacks is undefined, and
\* undefined < n is false in JavaScript.
insufficientStockProducts(items, productStock) ==
    {p \in DOMAIN items : p \in DOMAIN productStock /\ productStock[p] < items[p]}

\* the ways a result set without ORDER BY may list the rows S
Orderings(S) ==
    {s \in [1..Cardinality(S) -> S] :
        \A i, j \in 1..Cardinality(S) : i # j => s[i] # s[j]}

\* orderBy: { product: { name: "asc" } } of cart.ts:41-43
byName(S) ==
    CHOOSE s \in Orderings(S) :
        \A i, j \in 1..Cardinality(S) : i < j => NameRank[s[i]] < NameRank[s[j]]

\* part_001:50-58: the reduce over the cart items, from 0, in their order
RECURSIVE calculateTotalPrice(_, _)
calculateTotalPrice(items, products) ==
    IF items = <<>> THEN Int32(0)
    ELSE LET item == items[Len(items)]
             acc == calculateTotalPrice(SubSeq(items, 1, Len(items) - 1), products)
         IN  F64Add(acc, F64Mul(item.quantity,
                                IF item.productId \in DOMAIN products
                                THEN Number(products[item.productId].price)
                                ELSE Int32(0)))

\* cart.ts:50-54: the reduce over the cart items with their products
RECURSIVE totalOf(_)
totalOf(items) ==
    IF items = <<>> THEN Int32(0)
    ELSE F64Add(totalOf(SubSeq(items, 1, Len(items) - 1)),
                F64Mul(items[Len(items)].quantity, Number(items[Len(items)].price)))

\* cart.ts:22-54: the total of u's cart, its items listed by product name
cartTotal(u) ==
    LET ord == byName(DOMAIN cartItems[u])
    IN  totalOf([i \in 1..Len(ord) |->
                    [quantity |-> cartItems[u][ord[i]], price |-> price[ord[i]]]])

NoTx ==
    [op |-> "none", userId |-> "-", addr |-> "-", productId |-> "-",
     quantity |-> 0, isIncrement |-> FALSE, cartCreated |-> FALSE,
     hadCart |-> FALSE, stock |-> 0, hadItem |-> FALSE, oldQty |-> 0,
     rowFound |-> FALSE, rowGone |-> FALSE,
     cart |-> EmptyMap, products |-> EmptyMap, items |-> EmptyMap,
     order |-> {}, transaction |-> {}, todo |-> {}, locked |-> {},
     cleared |-> {}, userAgent |-> NoUserAgent, isRegenerate |-> FALSE,
     tokenRecord |-> {}, revoking |-> {}]

NoRes ==
    [req |-> "-", op |-> "none", status |-> "none", total |-> Int32(0),
     products |-> {}, available |-> 0]
Ok(op, total) ==
    [op |-> op, status |-> "ok", total |-> total, products |-> {}, available |-> 0]
Fail(op, msg) ==
    [op |-> op, status |-> msg, total |-> Int32(0), products |-> {}, available |-> 0]

\* What a failed call throws, by the status kept of it.  addOrUpdateCartItem
\* throws objects with a code and an error kind (cart.ts:99-125); every other
\* failure is an Error, of the service (cart.ts:208, 234, 242, part_001:40)
\* or of the database client, which has a message only: its error and code
\* fields are undefined, held here as "" and 0.
thrown(status) ==
    IF status = "PRODUCT_NOT_FOUND" THEN [error |-> status, code |-> 404]
    ELSE IF status = "INVALID_QUANTITY" THEN [error |-> status, code |-> 400]
    ELSE IF status = "CART_ITEM_NOT_FOUND" THEN [error |-> status, code |-> 404]
    ELSE [error |-> "", code |-> 0]

\* utils/response.ts:11-24, called with error?.error and error?.code by the
\* catch blocks of routes/cart.ts
respondError(error, code) ==
    [error |-> IF error = "" THEN "UNKNOWN_ERROR" ELSE error,
     status |-> IF code = 0 THEN 500 ELSE code]

\* a Cart row insert another open transaction has not committed yet
CartInsertPending(r, u) ==
    \E o \in Requests \ {r} : tx[o].cartCreated /\ tx[o].userId = u

\* a CartItem row an open checkout has deleted (cart.ts:320) and not committed
ItemRowLocked(r, u, p) ==
    \E o \in Requests \ {r} : tx[o].userId = u /\ p \in tx[o].cleared

Finish(r, result) ==
    /\ pc' = [pc EXCEPT ![r] = "idle"]
    /\ tx' = [tx EXCEPT ![r] = NoTx]
    /\ res' = [req |-> r] @@ result

\* Finish for a call that deletes the CartItem rows of products P in the cart
\* of user u: a row inserted later for such a product is another row, with
\* another id, so whoever has read the id of a deleted row holds the id of
\* no row (rowGone).
FinishDeleting(r, result, u, P) ==
    /\ pc' = [pc EXCEPT ![r] = "idle"]
    /\ tx' = [o \in Requests |->
                IF o = r THEN NoTx
                ELSE IF tx[o].userId = u /\ tx[o].productId \in P
                  THEN [tx[o] EXCEPT !.rowGone = TRUE]
                ELSE tx[o]]
    /\ res' = [req |-> r] @@ result

Goto(r, label, locals) ==
    /\ pc' = [pc EXCEPT ![r] = label]
    /\ tx' = [tx EXCEPT ![r] = locals]
    /\ res' = NoRes

Init ==
    /\ carts = {}
    /\ cartItems = [u \in Users |-> EmptyMap]
    /\ stockQty = InitStock
    /\ price = InitPrice
    /\ orders = <<>>
    /\ transactions = <<>>
    /\ userTokens = InitTokens
    /\ pc = [r \in Requests |-> "idle"]
    /\ tx = [r \in Requests |-> NoTx]
    /\ res = NoRes

\* ---------------------------------------------------------------- unique keys
\* carts.userId under the plain index of the migrations
carts_userId_idx(u) == FALSE

\* The unique key on carts.userId: cart.upsert and cart.findUnique select the
\* cart by userId alone (cart.ts:23, 80, 229).  TRUE when an INSERT of a Cart
\* row of user u meets a committed row with that key.
carts_userId_key(u) == u \in carts

\* cart_items(productId, cartId) without a unique key
cart_items_productId_cartId_idx(u, p) == FALSE

\* The unique key productId_cartId that cartItem.delete and cartItem.upsert
\* select by (cart.ts:130, 144).  TRUE when an INSERT of a CartItem row of
\* product p into the cart of user u meets a committed row with that key.
cart_items_productId_cartId_key(u, p) == p \in DOMAIN cartItems[u]

\* ------------------------------------------------------------------ getCart
\* cart.ts:21-48: cart.upsert selects the cart with its items and creates the
\* cart with nested items: the client runs it as a read of the row by userId
\* followed by an INSERT or an UPDATE.  This is the read.
getCart(r, u) ==
    /\ pc[r] = "idle"
    /\ Goto(r, "gc_upsert",
            [NoTx EXCEPT !.op = "getCart", !.userId = u, !.hadCart = (u \in carts)])
    /\ UNCHANGED db

\* cart.ts:21-54: the write of cart.upsert, the read of the items, COMMIT and
\* the total.  The INSERT waits for an uncommitted row of that user and fails
\* on a committed one.
getCartUpsert(r) ==
    /\ pc[r] = "gc_upsert"
    /\ LET u == tx[r].userId
       IN  IF tx[r].hadCart
           THEN /\ Finish(r, Ok("getCart", cartTotal(u)))
                /\ UNCHANGED carts
           ELSE /\ ~CartInsertPending(r, u)
                /\ IF carts_userId_key(u)
                   THEN /\ Finish(r, Fail("getCart", "Unique constraint failed"))
                        /\ UNCHANGED carts
                   ELSE /\ carts' = carts \cup {u}
                        /\ Finish(r, Ok("getCart", cartTotal(u)))
    /\ UNCHANGED <<cartItems, stockQty, price, orders, transactions, userTokens>>

\* ------------------------------------------------------- addOrUpdateCartItem
\* POST /item without the refinement quantity > 0
cartItemRequestNoRefine(q, inc) == q >= 0

\* routes/cart.ts:84-87 and 176-184, libs/avatar.ts:15-21: POST /item adds
\* (isIncrement) a quantity > 0, PATCH /item/{productId} sets a quantity >= 0.
cartItemRequest(q, inc) == IF inc THEN q > 0 ELSE q >= 0

\* cart.ts:78-88: cart.upsert (the row it inserts stays pending) and
\* product.findUnique, the first two statements of the transaction.
upsertReadProduct(r, u, p, q, inc) ==
    /\ pc[r] = "idle"
    /\ cartItemRequest(q, inc)
    /\ ~CartInsertPending(r, u)
    /\ Goto(r, "up_item",
            [NoTx EXCEPT !.op = "upsert", !.userId = u, !.productId = p,
                         !.quantity = q, !.isIncrement = inc,
                         !.cartCreated = (u \notin carts),
                         !.stock = IF p \in DOMAIN stockQty THEN stockQty[p] ELSE 0])
    /\ UNCHANGED db

\* message of cart.ts:115; the product name is its id here
InvalidQuantity(p, available) ==
    [op |-> "upsert", status |-> "INVALID_QUANTITY", total |-> Int32(0),
     products |-> {p}, available |-> available]

\* the stock compared with the requested quantity alone
upsertReadItemIgnoresExisting(r) ==
    /\ pc[r] = "up_item"
    /\ LET t == tx[r]
           u == t.userId
           p == t.productId
           found == u \in carts /\ p \in DOMAIN cartItems[u]
           old == IF found THEN cartItems[u][p] ELSE 0
           newQuantity == t.quantity
       IN  IF p \notin DOMAIN stockQty
             THEN Finish(r, Fail("upsert", "PRODUCT_NOT_FOUND"))
           ELSE IF newQuantity > t.stock
             THEN Finish(r, InvalidQuantity(p, t.stock))
           ELSE IF ~t.isIncrement /\ newQuantity = 0 /\ ~found
             THEN Finish(r, Fail("upsert", "CART_ITEM_NOT_FOUND"))
           ELSE Goto(r, IF ~t.isIncrement /\ newQuantity = 0 THEN "up_delete" ELSE "up_find",
                     [t EXCEPT !.hadItem = found, !.oldQty = old])
    /\ UNCHANGED db

\* the cart upserted outside the transaction: its row stays when a check fails
upsertReadItemKeepsCart(r) ==
    /\ pc[r] = "up_item"
    /\ LET t == tx[r]
           u == t.userId
           p == t.productId
           found == u \in carts /\ p \in DOMAIN cartItems[u]
           old == IF found THEN cartItems[u][p] ELSE 0
           newQuantity == IF t.isIncrement THEN old + t.quantity ELSE t.quantity
       IN  IF p \notin DOMAIN stockQty
             THEN Finish(r, Fail("upsert", "PRODUCT_NOT_FOUND"))
           ELSE IF newQuantity > t.stock
             THEN Finish(r, InvalidQuantity(p, t.stock))
           ELSE IF ~t.isIncrement /\ newQuantity = 0 /\ ~found
             THEN Finish(r, Fail("upsert", "CART_ITEM_NOT_FOUND"))
           ELSE Goto(r, IF ~t.isIncrement /\ newQuantity = 0 THEN "up_delete" ELSE "up_find",
                     [t EXCEPT !.hadItem = found, !.oldQty = old])
    /\ carts' = carts \cup {tx[r].userId}
    /\ UNCHANGED <<cartItems, stockQty, price, orders, transactions, userTokens>>

\* cart.ts:89-126: cartItem.findFirst, then the checks made on the three reads;
\* the transaction goes on to cartItem.delete or to cartItem.upsert.
upsertReadItem(r) ==
    /\ pc[r] = "up_item"
    /\ LET t == tx[r]
           u == t.userId
           p == t.productId
           found == u \in carts /\ p \in DOMAIN cartItems[u]
           old == IF found THEN cartItems[u][p] ELSE 0
           newQuantity == IF t.isIncrement THEN old + t.quantity ELSE t.quantity
       IN  IF p \notin DOMAIN stockQty
             THEN Finish(r, Fail("upsert", "PRODUCT_NOT_FOUND"))
           ELSE IF newQuantity > t.stock
             THEN Finish(r, InvalidQuantity(p, t.stock))
           ELSE IF ~t.isIncrement /\ newQuantity = 0 /\ ~found
             THEN Finish(r, Fail("upsert", "CART_ITEM_NOT_FOUND"))
           ELSE Goto(r, IF ~t.isIncrement /\ newQuantity = 0 THEN "up_delete" ELSE "up_find",
                     [t EXCEPT !.hadItem = found, !.oldQty = old])
    /\ UNCHANGED db

\* cart.ts:128-139: cartItem.delete by productId_cartId, then COMMIT.
upsertDelete(r) ==
    /\ pc[r] = "up_delete"
    /\ ~ItemRowLocked(r, tx[r].userId, tx[r].productId)
    /\ LET t == tx[r]
           u == t.userId
           p == t.productId
           rows == cartItems[u]
       IN  IF p \in DOMAIN rows
           THEN /\ cartItems' = [cartItems EXCEPT ![u] =
                                   [x \in DOMAIN rows \ {p} |-> rows[x]]]
                /\ carts' = carts \cup {u}
                /\ FinishDeleting(r, [op |-> "upsert", status |-> "removed",
                                      total |-> Int32(0), products |-> {p},
                                      available |-> 0], u, {p})
           ELSE \* P2025, record to delete does not exist: rolled back
                /\ Finish(r, Fail("upsert", "Record to delete does not exist"))
                /\ UNCHANGED <<carts, cartItems>>
    /\ UNCHANGED <<stockQty, price, orders, transactions, userTokens>>

\* cart.ts:142-148: cartItem.upsert selects a product with the row, so the
\* client runs it as a read of the row by productId_cartId followed by an
\* INSERT or an UPDATE.  This is the read.
upsertFind(r) ==
    /\ pc[r] = "up_find"
    /\ Goto(r, "up_write",
            [tx[r] EXCEPT !.rowFound = tx[r].productId \in DOMAIN cartItems[tx[r].userId],
                          !.rowGone = FALSE])
    /\ UNCHANGED db

\* the update branch of the upsert writing the request's quantity over the row
upsertWriteSetsQuantity(r) ==
    /\ pc[r] = "up_write"
    /\ ~ItemRowLocked(r, tx[r].userId, tx[r].productId)
    /\ LET t == tx[r]
           u == t.userId
           p == t.productId
           rows == cartItems[u]
           written(q) ==
               /\ cartItems' = [cartItems EXCEPT ![u] =
                     [x \in DOMAIN rows \cup {p} |-> IF x # p THEN rows[x] ELSE q]]
               /\ carts' = carts \cup {u}
               /\ Finish(r, [op |-> "upsert",
                             status |-> IF t.hadItem THEN "updated" ELSE "added",
                             total |-> Int32(0), products |-> {p},
                             available |-> 0])
           failed(msg) ==
               /\ Finish(r, Fail("upsert", msg))
               /\ UNCHANGED <<carts, cartItems>>
       IN  IF ~t.rowFound
           THEN IF cart_items_productId_cartId_key(u, p)
                THEN failed("Unique constraint failed")
                ELSE written(t.quantity)
           ELSE IF p \notin DOMAIN rows \/ t.rowGone
                THEN failed("Record to update not found")
                ELSE written(t.quantity)
    /\ UNCHANGED <<stockQty, price, orders, transactions, userTokens>>

\* cart.ts:149-178: the write of cartItem.upsert, then COMMIT.  The INSERT
\* fails on a committed row with its key; the UPDATE selects the row by the
\* id read, waits for an uncommitted delete of it and acts on its quantity
\* as committed now, not as read before.
upsertWrite(r) ==
    /\ pc[r] = "up_write"
    /\ ~ItemRowLocked(r, tx[r].userId, tx[r].productId)
    /\ LET t == tx[r]
           u == t.userId
           p == t.productId
           rows == cartItems[u]
           newQuantity == IF t.isIncrement THEN t.oldQty + t.quantity ELSE t.quantity
           written(q) ==
               /\ cartItems' = [cartItems EXCEPT ![u] =
                     [x \in DOMAIN rows \cup {p} |-> IF x # p THEN rows[x] ELSE q]]
               /\ carts' = carts \cup {u}
               /\ Finish(r, [op |-> "upsert",
                             status |-> IF t.hadItem THEN "updated" ELSE "added",
                             total |-> Int32(0), products |-> {p},
                             available |-> 0])
           failed(msg) ==
               /\ Finish(r, Fail("upsert", msg))
               /\ UNCHANGED <<carts, cartItems>>
       IN  IF ~t.rowFound
           THEN IF cart_items_productId_cartId_key(u, p)
                THEN failed("Unique constraint failed")
                ELSE written(t.quantity)
           ELSE IF p \notin DOMAIN rows \/ t.rowGone
                THEN \* P2025, record to update not found: rolled back
                     failed("Record to update not found")
                ELSE written(IF t.isIncrement THEN rows[p] + t.quantity
                             ELSE newQuantity)
    /\ UNCHANGED <<stockQty, price, orders, transactions, userTokens>>

\* ------------------------------------------------------------ deleteCartItem
\* cart.ts:190-208: cartItem.findFirst by product and the cart's user, outside
\* any transaction.
deleteReadItem(r, u, p) ==
    /\ pc[r] = "idle"
    /\ IF u \in carts /\ p \in DOMAIN cartItems[u]
         THEN Goto(r, "del_write",
                   [NoTx EXCEPT !.op = "delete", !.userId = u, !.productId = p,
                                !.hadItem = TRUE])
         ELSE Finish(r, Fail("delete", "Cart item not found."))
    /\ UNCHANGED db

\* the delete selecting by the cart instead of the cart item
deleteWriteWholeCart(r) ==
    /\ pc[r] = "del_write"
    /\ ~ItemRowLocked(r, tx[r].userId, tx[r].productId)
    /\ cartItems' = [cartItems EXCEPT ![tx[r].userId] = EmptyMap]
    /\ Finish(r, [op |-> "delete", status |-> "deleted", total |-> Int32(0),
                  products |-> {tx[r].productId}, available |-> 0])
    /\ UNCHANGED <<carts, stockQty, price, orders, transactions, userTokens>>

\* the delete selecting by the product instead of the cart item: it deletes
\* the rows of that product in every cart
deleteWriteAnyCart(r) ==
    /\ pc[r] = "del_write"
    /\ ~ItemRowLocked(r, tx[r].userId, tx[r].productId)
    /\ cartItems' = [u \in Users |->
                       [x \in DOMAIN cartItems[u] \ {tx[r].productId} |-> cartItems[u][x]]]
    /\ Finish(r, [op |-> "delete", status |-> "deleted", total |-> Int32(0),
                  products |-> {tx[r].productId}, available |-> 0])
    /\ UNCHANGED <<carts, stockQty, price, orders, transactions, userTokens>>

\* cart.ts:211-215: cartItem.delete by the id read, its own statement.
deleteWrite(r) ==
    /\ pc[r] = "del_write"
    /\ ~ItemRowLocked(r, tx[r].userId, tx[r].productId)
    /\ LET u == tx[r].userId
           p == tx[r].productId
           rows == cartItems[u]
       IN  IF p \in DOMAIN rows /\ ~tx[r].rowGone
           THEN /\ cartItems' = [cartItems EXCEPT ![u] =
                                   [x \in DOMAIN rows \ {p} |-> rows[x]]]
                /\ FinishDeleting(r, [op |-> "delete", status |-> "deleted",
                                      total |-> Int32(0), products |-> {p},
                                      available |-> 0], u, {p})
           ELSE /\ Finish(r, Fail("delete", "Record to delete does not exist"))
                /\ UNCHANGED cartItems
    /\ UNCHANGED <<carts, stockQty, price, orders, transactions, userTokens>>

\* ------------------------------------------------------------ product update
\* part_008:155-193, restricted to the price field of an existing product.
updateProduct(p, v) ==
    /\ price[p] # v
    /\ price' = [price EXCEPT ![p] = v]
    /\ res' = NoRes
    /\ UNCHANGED <<carts, cartItems, stockQty, orders, transactions, pc, tx, userTokens>>

\* ----------------------------------------------------------------- checkout
OpenCheckouts == Cardinality({r \in Requests : tx[r].op = "checkout"})

\* checkout without the userAddress.count test
checkoutLoadCartNoAddress(r, u, a) ==
    /\ pc[r] = "idle"
    /\ Len(orders) + OpenCheckouts < MaxOrders
    /\ IF u \notin carts \/ DOMAIN cartItems[u] = {}
         THEN Finish(r, Fail("checkout", "Cart is empty"))
       ELSE Goto(r, "ck_products",
                 [NoTx EXCEPT !.op = "checkout", !.userId = u, !.addr = a,
                              !.cart = [p \in DOMAIN cartItems[u] |->
                                          [quantity |-> cartItems[u][p],
                                           price |-> price[p]]]])
    /\ UNCHANGED db

\* checkout testing only !cart, not cart.cartItems.length === 0
checkoutLoadCartNoLength(r, u, a) ==
    /\ pc[r] = "idle"
    /\ Len(orders) + OpenCheckouts < MaxOrders
    /\ IF u \notin carts
         THEN Finish(r, Fail("checkout", "Cart is empty"))
       ELSE IF a \notin DOMAIN AddressOwner
         THEN Finish(r, Fail("checkout", "Shipping address not found"))
       ELSE Goto(r, "ck_products",
                 [NoTx EXCEPT !.op = "checkout", !.userId = u, !.addr = a,
                              !.cart = [p \in DOMAIN cartItems[u] |->
                                          [quantity |-> cartItems[u][p],
                                           price |-> price[p]]]])
    /\ UNCHANGED db

\* checkout testing the address before the cart
checkoutLoadCartAddressFirst(r, u, a) ==
    /\ pc[r] = "idle"
    /\ Len(orders) + OpenCheckouts < MaxOrders
    /\ IF a \notin DOMAIN AddressOwner
         THEN Finish(r, Fail("checkout", "Shipping address not found"))
       ELSE IF u \notin carts \/ DOMAIN cartItems[u] = {}
         THEN Finish(r, Fail("checkout", "Cart is empty"))
       ELSE Goto(r, "ck_products",
                 [NoTx EXCEPT !.op = "checkout", !.userId = u, !.addr = a,
                              !.cart = [p \in DOMAIN cartItems[u] |->
                                          [quantity |-> cartItems[u][p],
                                           price |-> price[p]]]])
    /\ UNCHANGED db

\* cart.ts:228-243: cart.findUnique with its items and their products, then
\* userAddress.count (the address rows never change here).
checkoutLoadCart(r, u, a) ==
    /\ pc[r] = "idle"
    /\ Len(orders) + OpenCheckouts < MaxOrders
    /\ IF u \notin carts \/ DOMAIN cartItems[u] = {}
         THEN Finish(r, Fail("checkout", "Cart is empty"))
       ELSE IF a \notin DOMAIN AddressOwner
         THEN Finish(r, Fail("checkout", "Shipping address not found"))
       ELSE Goto(r, "ck_products",
                 [NoTx EXCEPT !.op = "checkout", !.userId = u, !.addr = a,
                              !.cart = [p \in DOMAIN cartItems[u] |->
                                          [quantity |-> cartItems[u][p],
                                           price |-> price[p]]]])
    /\ UNCHANGED db

InsufficientStock(ps) ==
    [op |-> "checkout", status |-> "Insufficient stock for product(s)",
     total |-> Int32(0), products |-> ps, available |-> 0]

\* order items priced with the product's price when the order is written
orderItemsLivePrice(cart) ==
    {[productId |-> p, quantity |-> cart[p].quantity, price |-> price[p]] :
        p \in DOMAIN cart}

\* cart.ts:266-279: the Order row and its nested OrderItem rows, taken from
\* the cart as loaded by the first statement
orderItemsOf(cart) ==
    {[productId |-> p, quantity |-> cart[p].quantity, price |-> cart[p].price] :
        p \in DOMAIN cart}

newOrder(userId, totalPrice, shippingAddressId, cart) ==
    [userId |-> userId, totalPrice |-> totalPrice, status |-> "pending",
     shippingAddressId |-> shippingAddressId, orderItems |-> orderItemsOf(cart)]

\* one unit per cart row instead of the row's quantity
decrementStockByOne(cart) == [p \in DOMAIN cart |-> 1]

\* cart.ts:293-296: quantity to take from each product of the loaded cart
decrementStock(cart) == [p \in DOMAIN cart |-> cart[p].quantity]

\* the transaction created with the order's status
newTransactionOrderStatus(invoiceNumber, order) ==
    [noInvoice |-> invoiceNumber, amount |-> order.totalPrice,
     status |-> order.status]

\* cart.ts:309-316.  Number(order.totalPrice) is the number the order was
\* created with: a decimal column returns the digits it was given, and they
\* name that same binary64.
newTransaction(invoiceNumber, order) ==
    [noInvoice |-> invoiceNumber, amount |-> order.totalPrice,
     status |-> "Pending"]

\* cart.ts:245-291: product.findMany over the product ids of the loaded cart
\* and cartItem.findMany, validateProductStock, calculateTotalPrice, then
\* order.create with its nested order items (pending).  cart.cartItems was
\* read without ORDER BY, so its rows come in any order.  The two reads of the
\* Promise.all are one step: a commit falling between them changes either
\* only what the first read (stock, price) or only what the second read (this
\* user's cart items), or it is a checkout of this user, which empties the
\* second read's result and so makes the first read's stock irrelevant.
checkoutValidate(r) ==
    /\ pc[r] = "ck_products"
    /\ LET t == tx[r]
           products == [p \in DOMAIN t.cart \cap DOMAIN stockQty |->
                          [stockQty |-> stockQty[p], price |-> price[p]]]
           items == cartItems[t.userId]
           productStock == [p \in DOMAIN products |-> products[p].stockQty]
           bad == insufficientStockProducts(items, productStock)
       IN  IF bad # {}
             THEN Finish(r, InsufficientStock(bad))
           ELSE \E ord \in Orderings(DOMAIN t.cart) :
                  LET rows == [i \in 1..Len(ord) |->
                                 [productId |-> ord[i], quantity |-> t.cart[ord[i]].quantity]]
                      totalPrice == calculateTotalPrice(rows, products)
                  IN  Goto(r, "ck_transaction",
                           [t EXCEPT !.products = products, !.items = items,
                                     !.order = {newOrder(t.userId, totalPrice, t.addr, t.cart)},
                                     !.todo = DOMAIN decrementStock(t.cart)])
    /\ UNCHANGED db

\* transactions.noInvoice without its unique index
checkoutTransactionNoUnique(r, inv) ==
    /\ pc[r] = "ck_transaction"
    /\ LET order == CHOOSE o \in tx[r].order : TRUE
       IN  Goto(r, "ck_stock",
                [tx[r] EXCEPT !.transaction = {newTransaction(inv, order)}])
    /\ UNCHANGED db

\* checkoutTransaction without the rollback of the order written before it
checkoutTransactionKeepsOrder(r, inv) ==
    /\ pc[r] = "ck_transaction"
    /\ \A o \in Requests \ {r} : \A w \in tx[o].transaction : w.noInvoice # inv
    /\ LET order == CHOOSE o \in tx[r].order : TRUE
       IN  IF \E k \in 1..Len(transactions) : transactions[k].noInvoice = inv
             THEN /\ Finish(r, Fail("checkout", "Unique constraint failed"))
                  /\ orders' = Append(orders, [id |-> Len(orders) + 1] @@ order)
                  /\ UNCHANGED <<carts, cartItems, stockQty, price, transactions, userTokens>>
           ELSE /\ Goto(r, "ck_stock",
                        [tx[r] EXCEPT !.transaction = {newTransaction(inv, order)}])
                /\ UNCHANGED db

\* cart.ts:306-316: generateInvoiceNumber and transaction.create, the first
\* statement of the Promise.all.  noInvoice is unique: an equal committed
\* number is a constraint violation, an equal uncommitted one makes the
\* insert wait for that transaction.
checkoutTransaction(r, inv) ==
    /\ pc[r] = "ck_transaction"
    /\ \A o \in Requests \ {r} : \A w \in tx[o].transaction : w.noInvoice # inv
    /\ IF \E k \in 1..Len(transactions) : transactions[k].noInvoice = inv
         THEN Finish(r, Fail("checkout", "Unique constraint failed"))
       ELSE LET order == CHOOSE o \in tx[r].order : TRUE
            IN  Goto(r, "ck_stock",
                     [tx[r] EXCEPT !.transaction = {newTransaction(inv, order)}])
    /\ UNCHANGED db

\* the stock decrement issued outside the transaction: visible at once
checkoutDecrementAutocommit(r, p) ==
    /\ pc[r] = "ck_stock"
    /\ p \in tx[r].todo
    /\ \A o \in Requests \ {r} : p \notin tx[o].locked
    /\ stockQty' = [stockQty EXCEPT ![p] = @ - decrementStock(tx[r].cart)[p]]
    /\ Goto(r, IF tx[r].todo = {p} THEN "ck_clear" ELSE "ck_stock",
            [tx[r] EXCEPT !.todo = @ \ {p}])
    /\ UNCHANGED <<carts, cartItems, price, orders, transactions, userTokens>>

\* cart.ts:298-304: one product.update per product of the loaded cart, in the
\* order of its rows.  The relative decrement takes the row lock, held until
\* the transaction ends, and is applied to the row as committed.
checkoutDecrement(r, p) ==
    /\ pc[r] = "ck_stock"
    /\ p \in tx[r].todo
    /\ \A o \in Requests \ {r} : p \notin tx[o].locked
    /\ Goto(r, IF tx[r].todo = {p} THEN "ck_clear" ELSE "ck_stock",
            [tx[r] EXCEPT !.todo = @ \ {p}, !.locked = @ \cup {p}])
    /\ UNCHANGED db

\* a store that lets two transactions wait for each other
checkoutDeadlockUndetected(r) ==
    /\ FALSE
    /\ Finish(r, Fail("checkout", "deadlock detected"))
    /\ UNCHANGED db

\* cart.ts:298-304 on PostgreSQL: two transactions that each wait for a row
\* lock the other holds are a deadlock; the store aborts one of them.
checkoutDeadlock(r) ==
    /\ pc[r] = "ck_stock"
    /\ \E o \in Requests \ {r} :
          /\ tx[r].todo \cap tx[o].locked # {}
          /\ tx[o].todo \cap tx[r].locked # {}
    /\ Finish(r, Fail("checkout", "deadlock detected"))
    /\ UNCHANGED db

\* checkout without the deleteMany
checkoutClearNothing(r) ==
    /\ pc[r] = "ck_clear"
    /\ Goto(r, "ck_commit", tx[r])
    /\ UNCHANGED db

\* cart.ts:320-322: cartItem.deleteMany deletes (pending) the rows the cart
\* has now and keeps them locked; it waits for the rows another open
\* transaction has deleted.
checkoutClear(r) ==
    /\ pc[r] = "ck_clear"
    /\ \A p \in DOMAIN cartItems[tx[r].userId] : ~ItemRowLocked(r, tx[r].userId, p)
    /\ Goto(r, "ck_commit",
            [tx[r] EXCEPT !.cleared = DOMAIN cartItems[tx[r].userId]])
    /\ UNCHANGED db

\* the stock written as the stock read at validation less the quantity: an
\* absolute write of a value computed in the application
checkoutCommitAbsolute(r) ==
    /\ pc[r] = "ck_commit"
    /\ LET t == tx[r]
           id == Len(orders) + 1
           order == CHOOSE o \in t.order : TRUE
           txn == CHOOSE w \in t.transaction : TRUE
           rows == cartItems[t.userId]
       IN  /\ orders' = Append(orders, [id |-> id] @@ order)
           /\ transactions' = Append(transactions, [orderId |-> id] @@ txn)
           /\ stockQty' = [p \in DOMAIN stockQty |->
                             IF p \in t.locked
                             THEN t.products[p].stockQty - decrementStock(t.cart)[p]
                             ELSE stockQty[p]]
           /\ cartItems' = [cartItems EXCEPT ![t.userId] =
                              [p \in DOMAIN rows \ t.cleared |-> rows[p]]]
           /\ FinishDeleting(r, Ok("checkout", order.totalPrice),
                             t.userId, t.cleared)
    /\ UNCHANGED <<carts, price, userTokens>>

\* cart.ts:227, 324-325: the callback returns and every pending write commits.
checkoutCommit(r) ==
    /\ pc[r] = "ck_commit"
    /\ LET t == tx[r]
           id == Len(orders) + 1
           order == CHOOSE o \in t.order : TRUE
           txn == CHOOSE w \in t.transaction : TRUE
           rows == cartItems[t.userId]
       IN  /\ orders' = Append(orders, [id |-> id] @@ order)
           /\ transactions' = Append(transactions, [orderId |-> id] @@ txn)
           /\ stockQty' = [p \in DOMAIN stockQty |->
                             IF p \in t.locked
                             THEN stockQty[p] - decrementStock(t.cart)[p]
                             ELSE stockQty[p]]
           /\ cartItems' = [cartItems EXCEPT ![t.userId] =
                              [p \in DOMAIN rows \ t.cleared |-> rows[p]]]
           /\ FinishDeleting(r, Ok("checkout", order.totalPrice),
                             t.userId, t.cleared)
    /\ UNCHANGED <<carts, price, userTokens>>

\* POST /item and PATCH /item/{productId} of routes/cart.ts
addItem(r, u, p, q) == upsertReadProduct(r, u, p, q, TRUE)
setItem(r, u, p, q) == upsertReadProduct(r, u, p, q, FALSE)
\* DELETE /item/{productId} of routes/cart.ts
deleteItem(r, u, p) == deleteReadItem(r, u, p)

Next ==
    \/ \E r \in Requests : getCart(r, Client[r])
    \/ \E r \in Requests : getCartUpsert(r)
    \/ \E r \in Requests, p \in ProductIds, q \in 0..MaxQty : addItem(r, Client[r], p, q)
    \/ \E r \in Requests : upsertReadItem(r)
    \/ \E r \in Requests : upsertFind(r)
    \/ \E r \in Requests : upsertWrite(r)
    \/ \E r \in Requests, a \in AddressIds : checkoutLoadCart(r, Client[r], a)
    \/ \E r \in Requests : checkoutValidate(r)
    \/ \E r \in Requests, inv \in Invoices : checkoutTransaction(r, inv)
    \/ \E r \in Requests, p \in Products : checkoutDecrement(r, p)
    \/ \E r \in Requests : checkoutDeadlock(r)
    \/ \E r \in Requests : checkoutClear(r)
    \/ \E r \in Requests : checkoutCommit(r)

Spec == Init /\ [][Next]_vars

\* One client, and product updates (of the price) between its statements.
NextPrice ==
    \/ getCart("r1", "u1")
    \/ getCartUpsert("r1")
    \/ \E p \in Products, q \in 0..MaxQty : addItem("r1", "u1", p, q)
    \/ upsertReadItem("r1")
    \/ upsertFind("r1")
    \/ upsertWrite("r1")
    \/ \E p \in Products, v \in Prices : updateProduct(p, v)
    \/ \E a \in AddressIds : checkoutLoadCart("r1", "u1", a)
    \/ checkoutValidate("r1")
    \/ \E inv \in Invoices : checkoutTransaction("r1", inv)
    \/ \E p \in Products : checkoutDecrement("r1", p)
    \/ checkoutClear("r1")
    \/ checkoutCommit("r1")

SpecPrice == Init /\ [][NextPrice]_vars

\* Totals of carts whose prices carry hundredths: one client reads its cart
\* and checks it out.  products.price admits any decimal from 1 up
\* (schemas/product.ts:107-109).
TotalProducts == {"p1", "p2", "p3"}
TotalPrice == [p1 |-> 110, p2 |-> 220, p3 |-> 330]
TotalPriceLists ==
    {[p1 |-> a, p2 |-> b, p3 |-> 330] : a \in {110, 4500000}, b \in {220, 3000000}}
TotalCarts ==
    UNION {[S -> 1..MaxQty] : S \in SUBSET TotalProducts \ {{}}}

InitTotal ==
    /\ carts = {"u1"}
    /\ cartItems \in {[u \in Users |-> IF u = "u1" THEN c ELSE EmptyMap] : c \in TotalCarts}
    /\ stockQty = [p \in TotalProducts |-> MaxQty]
    /\ price \in TotalPriceLists
    /\ orders = <<>>
    /\ transactions = <<>>
    /\ userTokens = InitTokens
    /\ pc = [r \in Requests |-> "idle"]
    /\ tx = [r \in Requests |-> NoTx]
    /\ res = NoRes

NextTotal ==
    \/ getCart("r1", "u1")
    \/ getCartUpsert("r1")
    \/ \E a \in AddressIds : checkoutLoadCart("r1", "u1", a)
    \/ checkoutValidate("r1")
    \/ \E inv \in Invoices : checkoutTransaction("r1", inv)
    \/ \E p \in TotalProducts : checkoutDecrement("r1", p)
    \/ checkoutClear("r1")
    \/ checkoutCommit("r1")

SpecTotal == InitTotal /\ [][NextTotal]_vars

\* The cart operations in both modes, without checkout: the stock stays as
\* seeded.
NextCart ==
    \/ \E r \in Requests : getCart(r, Client[r])
    \/ \E r \in Requests : getCartUpsert(r)
    \/ \E r \in Requests, p \in ProductIds, q \in 0..MaxQty : addItem(r, Client[r], p, q)
    \/ \E r \in Requests, p \in ProductIds, q \in 0..MaxQty : setItem(r, Client[r], p, q)
    \/ \E r \in Requests : upsertReadItem(r)
    \/ \E r \in Requests : upsertDelete(r)
    \/ \E r \in Requests : upsertFind(r)
    \/ \E r \in Requests : upsertWrite(r)
    \/ \E r \in Requests, p \in ProductIds : deleteItem(r, Client[r], p)
    \/ \E r \in Requests : deleteWrite(r)

SpecCart == Init /\ [][NextCart]_vars

\* Spec with the removal by PATCH /item/{productId} (quantity 0) added.
NextSet ==
    \/ Next
    \/ \E r \in Requests, p \in Products : setItem(r, Client[r], p, 0)
    \/ \E r \in Requests : upsertDelete(r)

SpecSet == Init /\ [][NextSet]_vars

\* Two requests of one user at a time: getCart and both modes of
\* addOrUpdateCartItem.
SameUser == "u1"
NextSame ==
    \/ \E r \in Requests : getCart(r, SameUser)
    \/ \E r \in Requests : getCartUpsert(r)
    \/ \E r \in Requests, p \in ProductIds, q \in 0..MaxQty : addItem(r, SameUser, p, q)
    \/ \E r \in Requests, p \in ProductIds, q \in 0..MaxQty : setItem(r, SameUser, p, q)
    \/ \E r \in Requests : upsertReadItem(r)
    \/ \E r \in Requests : upsertDelete(r)
    \/ \E r \in Requests : upsertFind(r)
    \/ \E r \in Requests : upsertWrite(r)

SpecSame == Init /\ [][NextSame]_vars

\* Every cart operation of the two users: Spec with DELETE /item/{productId}.
NextAll ==
    \/ Next
    \/ \E r \in Requests, p \in ProductIds : deleteItem(r, Client[r], p)
    \/ \E r \in Requests : deleteWrite(r)

SpecAll == Init /\ [][NextAll]_vars

\* Two requests of one user at a time on a cart that holds items: one checks
\* out while the other one changes the cart.
OwnCarts == {[p \in S |-> 1] : S \in SUBSET Products \ {{}}} \cup {[p1 |-> MaxQty]}
InitOwn ==
    /\ carts = {SameUser}
    /\ cartItems \in {[u \in Users |-> IF u = SameUser THEN c ELSE EmptyMap] : c \in OwnCarts}
    /\ stockQty = InitStock
    /\ price = InitPrice
    /\ orders = <<>>
    /\ transactions = <<>>
    /\ userTokens = InitTokens
    /\ pc = [r \in Requests |-> "idle"]
    /\ tx = [r \in Requests |-> NoTx]
    /\ res = NoRes

NextOwn ==
    \/ \E p \in Products, q \in 1..MaxQty : addItem("r2", SameUser, p, q)
    \/ \E p \in Products, q \in 0..MaxQty : setItem("r2", SameUser, p, q)
    \/ upsertReadItem("r2")
    \/ upsertDelete("r2")
    \/ upsertFind("r2")
    \/ upsertWrite("r2")
    \/ \E p \in Products : deleteItem("r2", SameUser, p)
    \/ deleteWrite("r2")
    \/ checkoutLoadCart("r1", SameUser, "a1")
    \/ checkoutValidate("r1")
    \/ \E inv \in Invoices : checkoutTransaction("r1", inv)
    \/ \E p \in Products : checkoutDecrement("r1", p)
    \/ checkoutClear("r1")
    \/ checkoutCommit("r1")

SpecOwn == InitOwn /\ [][NextOwn]_vars

\* Two checkouts of one user at a time on a cart that holds items.
NextTwice ==
    \/ \E r \in Requests : checkoutLoadCart(r, SameUser, "a1")
    \/ \E r \in Requests : checkoutValidate(r)
    \/ \E r \in Requests, inv \in Invoices : checkoutTransaction(r, inv)
    \/ \E r \in Requests, p \in Products : checkoutDecrement(r, p)
    \/ \E r \in Requests : checkoutDeadlock(r)
    \/ \E r \in Requests : checkoutClear(r)
    \/ \E r \in Requests : checkoutCommit(r)

SpecTwice == InitOwn /\ [][NextTwice]_vars

\* -------------------------------------------------------------- processToken
\* utils/userAgent.ts:25-46: the same browser, the same operating system and
\* versions of it no more than 1 apart
compareUserAgent(userAgentRequest, userAgentDB) ==
    LET isBrowserSimilar == userAgentRequest.browser = userAgentDB.browser
        d == userAgentRequest.version - userAgentDB.version
        isOSSimilar == /\ userAgentRequest.os = userAgentDB.os
                       /\ (IF d < 0 THEN -d ELSE d) <= 1
    IN  isBrowserSimilar /\ isOSSimilar

\* the strings a client can present as refresh token: a refresh token signed
\* with a jwtId (it exists once its row is stored), an access token (signed,
\* without jwtId) and a string that is no token of this service
RefreshTokens ==
    {[kind |-> "refresh", jwtId |-> j] : j \in JwtIds}
        \cup {[kind |-> "access", jwtId |-> 0], [kind |-> "malformed", jwtId |-> 0]}

\* jwt.validateToken: validateJWT of oslo/jwt throws an Error for a string
\* that does not parse or verify and for a token whose exp is past, and
\* returns the claims otherwise; no value stands for the absent jwtId.
validateToken(token) ==
    IF token.kind = "malformed" THEN [error |-> "Invalid JWT", jwtId |-> 0]
    ELSE IF token.kind = "refresh" /\ userTokens[token.jwtId].jwtExpired
      THEN [error |-> "Expired JWT", jwtId |-> 0]
    ELSE [error |-> "", jwtId |-> token.jwtId]

\* what a processToken call returns to the route: token is the jwtId of the
\* refresh token of the pair it returns, 0 when it returns no pair
TokenOk(token) ==
    [op |-> "processToken", status |-> "ok", total |-> Int32(0), products |-> {},
     available |-> 0, token |-> token]
TokenFail(status) ==
    [op |-> "processToken", status |-> status, total |-> Int32(0), products |-> {},
     available |-> 0, token |-> 0]

\* auth.ts:116-158: processToken throws objects with code 401; an Error
\* thrown by validateJWT has a message only.
tokenError(status) ==
    IF status \in {"INVALID_TOKEN", "USER_AGENT_MISMATCH"}
      THEN [error |-> status, code |-> 401]
    ELSE [error |-> "", code |-> 0]

\* refreshes that have not stored their new row yet
OpenRefreshes ==
    Cardinality({r \in Requests : tx[r].op = "processToken" /\ tx[r].isRegenerate})

\* auth.ts:113-138: validateToken and userToken.findFirst by jwtId, revoked
\* false and expiresAt not past, the first statement of the transaction; it
\* reads what is committed.
processTokenFind(r, refreshToken, userAgent, isRegenerate) ==
    /\ pc[r] = "idle"
    /\ refreshToken.kind = "refresh" => refreshToken.jwtId \in DOMAIN userTokens
    /\ isRegenerate => Cardinality(DOMAIN userTokens) + OpenRefreshes < MaxTokens
    /\ LET token == validateToken(refreshToken)
           found == {j \in DOMAIN userTokens :
                        /\ j = token.jwtId
                        /\ ~userTokens[j].revoked
                        /\ ~userTokens[j].expired}
       IN  IF token.error # ""
             THEN Finish(r, TokenFail(token.error))
           ELSE IF token.jwtId = 0 \/ found = {}
             THEN Finish(r, TokenFail("INVALID_TOKEN"))
           ELSE LET j == token.jwtId
                IN  Goto(r, "pt_update",
                         [NoTx EXCEPT !.op = "processToken",
                                      !.userId = userTokens[j].userId,
                                      !.userAgent = userAgent,
                                      !.isRegenerate = isRegenerate,
                                      !.tokenRecord =
                                          {[id |-> j, userId |-> userTokens[j].userId,
                                            userAgent |-> userTokens[j].userAgent]}])
    /\ UNCHANGED db

\* auth.ts:140-167: the user agent test and userToken.update by id.  The
\* UPDATE waits for an uncommitted update of the row and then acts on the row
\* whatever its revoked is.  On a mismatch the row is updated and the object
\* thrown next rolls the transaction back, the update with it.
processTokenUpdate(r) ==
    /\ pc[r] = "pt_update"
    /\ LET t == tx[r]
           tokenRecord == CHOOSE x \in t.tokenRecord : TRUE
       IN  /\ \A o \in Requests \ {r} : tokenRecord.id \notin tx[o].revoking
           /\ IF /\ t.isRegenerate
                 /\ t.userAgent # NoUserAgent
                 /\ tokenRecord.userAgent # NoUserAgent
                 /\ ~compareUserAgent(t.userAgent, tokenRecord.userAgent)
                THEN Finish(r, TokenFail("USER_AGENT_MISMATCH"))
              ELSE Goto(r, "pt_commit", [t EXCEPT !.revoking = {tokenRecord.id}])
    /\ UNCHANGED db

\* auth.ts:169-170, 173, 189: the callback returns tokenRecord and the update
\* commits; a call that does not regenerate returns true.
processTokenCommit(r) ==
    /\ pc[r] = "pt_commit"
    /\ LET t == tx[r]
           tokenRecord == CHOOSE x \in t.tokenRecord : TRUE
       IN  /\ userTokens' =
                 [userTokens EXCEPT ![tokenRecord.id] =
                     [@ EXCEPT !.revoked = TRUE,
                               !.userAgent = IF t.userAgent # NoUserAgent
                                               THEN t.userAgent
                                             ELSE tokenRecord.userAgent]]
           /\ IF t.isRegenerate
                THEN Goto(r, "pt_create", [t EXCEPT !.revoking = {}])
              ELSE Finish(r, TokenOk(0))
    /\ UNCHANGED <<carts, cartItems, stockQty, price, orders, transactions>>

\* auth.ts:173-187 and jwt.createRefreshToken: the access token and the
\* refresh token are signed, and userToken.create stores the row of the
\* refresh token under a new jwtId with the user agent of the request.
createRefreshToken(r) ==
    /\ pc[r] = "pt_create"
    /\ LET t == tx[r]
           jwtId == CHOOSE j \in JwtIds \ DOMAIN userTokens :
                       \A k \in JwtIds \ DOMAIN userTokens : j <= k
       IN  /\ userTokens' =
                 [j \in DOMAIN userTokens \cup {jwtId} |->
                     IF j = jwtId
                       THEN [userId |-> t.userId, revoked |-> FALSE,
                             userAgent |-> t.userAgent,
                             expired |-> FALSE, jwtExpired |-> FALSE]
                     ELSE userTokens[j]]
           /\ Finish(r, TokenOk(jwtId))
    /\ UNCHANGED <<carts, cartItems, stockQty, price, orders, transactions>>

\* auth.ts:128 and validateJWT: the clock passes expiresAt of the row or the
\* exp claim of its token; the two are set from two readings of the clock and
\* exp is cut to whole seconds, so either can be the first.
passTime(j) ==
    /\ j \in DOMAIN userTokens
    /\ \/ /\ ~userTokens[j].expired
          /\ userTokens' = [userTokens EXCEPT ![j].expired = TRUE]
       \/ /\ ~userTokens[j].jwtExpired
          /\ userTokens' = [userTokens EXCEPT ![j].jwtExpired = TRUE]
    /\ res' = NoRes
    /\ UNCHANGED <<carts, cartItems, stockQty, price, orders, transactions, pc, tx>>

\* POST /auth/refresh-token and POST /auth/logout by two clients at a time,
\* each with any token string and any User-Agent header.
RequestAgents == {NoUserAgent, ChromeWin10, ChromeWin11, FirefoxWin10}

NextToken ==
    \/ \E r \in Requests, refreshToken \in RefreshTokens, userAgent \in RequestAgents,
          isRegenerate \in BOOLEAN :
          processTokenFind(r, refreshToken, userAgent, isRegenerate)
    \/ \E r \in Requests : processTokenUpdate(r)
    \/ \E r \in Requests : processTokenCommit(r)
    \/ \E r \in Requests : createRefreshToken(r)

SpecToken == Init /\ [][NextToken]_vars

\* One client at a time, over the lifetime of its tokens.
NextSession ==
    \/ \E refreshToken \in RefreshTokens, userAgent \in RequestAgents,
          isRegenerate \in BOOLEAN :
          processTokenFind("r1", refreshToken, userAgent, isRegenerate)
    \/ processTokenUpdate("r1")
    \/ processTokenCommit("r1")
    \/ createRefreshToken("r1")
    \/ \E j \in JwtIds : passTime(j)

SpecSession == Init /\ [][NextSession]_vars

\* Checkouts of two users whose carts hold items, each statement of an open
\* transaction being run in the end.  The callback of db.$transaction issues
\* its next statement when the one before has returned (weak fairness of
\* every step); a product.update waiting for a row lock is in the lock's queue
\* and gets the lock when the holder ends, before a transaction that asks
\* for it later (strong fairness of checkoutDecrement); the store runs its
\* deadlock detection while transactions wait for each other.
LiveCarts == {[p1 |-> 1], [p1 |-> 1, p2 |-> 1]}

InitLive ==
    /\ carts = Users
    /\ cartItems \in [Users -> LiveCarts]
    /\ stockQty = InitStock
    /\ price = InitPrice
    /\ orders = <<>>
    /\ transactions = <<>>
    /\ userTokens = InitTokens
    /\ pc = [r \in Requests |-> "idle"]
    /\ tx = [r \in Requests |-> NoTx]
    /\ res = NoRes

NextLive ==
    \/ \E r \in Requests, a \in AddressIds : checkoutLoadCart(r, Client[r], a)
    \/ \E r \in Requests : checkoutValidate(r)
    \/ \E r \in Requests, inv \in Invoices : checkoutTransaction(r, inv)
    \/ \E r \in Requests, p \in Products : checkoutDecrement(r, p)
    \/ \E r \in Requests : checkoutDeadlock(r)
    \/ \E r \in Requests : checkoutClear(r)
    \/ \E r \in Requests : checkoutCommit(r)

FairLive ==
    /\ \A r \in Requests :
          /\ WF_vars(checkoutValidate(r))
          /\ WF_vars(\E inv \in Invoices : checkoutTransaction(r, inv))
          /\ SF_vars(\E p \in Products : checkoutDecrement(r, p))
          /\ WF_vars(checkoutClear(r))
          /\ WF_vars(checkoutCommit(r))
    /\ WF_vars(\E r \in Requests : checkoutDeadlock(r))

SpecLive == InitLive /\ [][NextLive]_vars /\ FairLive

\* calculateTotalPrice on its own: its parameters are arrays of any content
\* (part_001:50-53), here up to two cart items and the products found for
\* any subset of their ids.
HelperItems ==
    LET item == [productId : TotalProducts, quantity : {1, MaxQty}]
    IN  {<<a>> : a \in item} \cup {<<a, b>> : a \in item, b \in item}
HelperProducts ==
    {[p \in S |-> [price |-> TotalPrice[p]]] : S \in SUBSET TotalProducts}

applyCalculateTotalPrice(r, items, products) ==
    /\ pc[r] = "idle"
    /\ tx' = [tx EXCEPT ![r] = [NoTx EXCEPT !.op = "calculateTotalPrice",
                                            !.items = items,
                                            !.products = products]]
    /\ res' = [req |-> r] @@ Ok("calculateTotalPrice",
                                calculateTotalPrice(items, products))
    /\ UNCHANGED <<db, pc>>

NextHelper ==
    \E items \in HelperItems, products \in HelperProducts :
        applyCalculateTotalPrice("r1", items, products)

SpecHelper == Init /\ [][NextHelper]_vars

\* ===================================================================== claims
CheckoutCommits(r) == pc[r] = "ck_commit" /\ pc'[r] = "idle"
CheckoutReturns(r) == res'.req = r /\ res'.op = "checkout"

\* C1: no overselling: under every interleaving of checkout and upsertItem
\* calls the stock quantity of a product is never negative in a committed
\* state.
C1_NoOverselling == \A p \in Products : stockQty[p] >= 0

\* C2: of two concurrent checkouts of different users on one product, each
\* within the stock it read and together above it, never both commit: a
\* checkout whose product was decremented by another checkout after it read
\* the stock commits only if its quantity still fits the stock that is left.
C2_ConcurrentCheckouts ==
    [][\A r \in Requests :
          CheckoutCommits(r) =>
             \A p \in DOMAIN tx[r].cart :
                stockQty[p] < tx[r].products[p].stockQty
                   => tx[r].cart[p].quantity <= stockQty[p]]_vars

\* C3: checkout atomicity: when a checkout fails at any step (empty cart,
\* missing address, insufficient stock, a write failure such as an invoice
\* number collision), the carts, cart items, stock, orders and transactions
\* are as before and nothing the attempt wrote stays pending.
C3_CheckoutAtomicity ==
    [][\A r \in Requests :
          (CheckoutReturns(r) /\ res'.status # "ok")
             => /\ UNCHANGED <<carts, cartItems, stockQty, orders, transactions>>
                /\ tx'[r] = NoTx]_vars

\* C3 witness: a checkout failed on the invoice number collision, after its
\* order was written, and the cart still holds its items.
C3_Witness ==
    /\ res.op = "checkout"
    /\ res.status = "Unique constraint failed"
    /\ DOMAIN cartItems[Client[res.req]] # {}
    /\ Len(orders) = 1

\* C4: stock validation at checkout: if the quantity of at least one cart
\* item exceeds the stock of its product, the checkout fails with
\* insufficient stock, the failure names every such product, and no order is
\* created.
C4_StockValidation ==
    [][\A r \in Requests :
          (pc[r] = "ck_products" /\ pc'[r] # "ck_products") =>
             LET u == tx[r].userId
                 offending == {p \in DOMAIN cartItems[u] :
                                  cartItems[u][p] > stockQty[p]}
             IN  offending # {} =>
                    /\ CheckoutReturns(r)
                    /\ res'.status = "Insufficient stock for product(s)"
                    /\ res'.products = offending
                    /\ orders' = orders
                    /\ tx'[r].order = {}]_vars

\* C4 witness: a checkout failed naming two offending products.
C4_Witness ==
    /\ res.op = "checkout"
    /\ res.status = "Insufficient stock for product(s)"
    /\ Cardinality(res.products) = 2
    /\ \A p \in res.products : cartItems[Client[res.req]][p] > stockQty[p]

\* C5: a successful checkout reduces the stock of every product in the cart
\* by exactly the quantity the cart holds of it and leaves the stock of every
\* other product unchanged.
C5_StockDecrement ==
    [][\A r \in Requests :
          CheckoutCommits(r) =>
             LET rows == cartItems[tx[r].userId]
             IN  \A p \in Products :
                    stockQty'[p] = stockQty[p] -
                                     (IF p \in DOMAIN rows THEN rows[p] ELSE 0)]_vars

\* C5 witness: a checkout of quantity 2 took the stock of p1 from 2 to 0 and
\* left the stock of p2.
C5_Witness ==
    /\ res.op = "checkout" /\ res.status = "ok"
    /\ Len(orders) = 1
    /\ orders[1].orderItems = {[productId |-> "p1", quantity |-> 2, price |-> 4500000]}
    /\ stockQty = [p1 |-> 0, p2 |-> 1]

\* C6: every committed order has exactly one transaction, committed with it,
\* whose amount is the order's total price and whose status is "Pending";
\* there is no order without its transaction and no transaction without its
\* order.
C6_OrderTransaction ==
    /\ \A k \in 1..Len(orders) :
          Cardinality({j \in 1..Len(transactions) :
                          transactions[j].orderId = orders[k].id}) = 1
    /\ \A j \in 1..Len(transactions) :
          /\ transactions[j].status = "Pending"
          /\ Cardinality({k \in 1..Len(orders) :
                            /\ orders[k].id = transactions[j].orderId
                            /\ orders[k].totalPrice = transactions[j].amount}) = 1

\* C6 witness: two orders, each with its transaction, one of them over two
\* products.
C6_Witness ==
    /\ Len(orders) = 2 /\ Len(transactions) = 2
    /\ \E k \in 1..2 : Cardinality(orders[k].orderItems) = 2

\* C7: after a successful checkout the user's cart has no cart items and the
\* Cart row still exists.
C7_CartCleared ==
    [][\A r \in Requests :
          CheckoutCommits(r) =>
             /\ cartItems'[tx[r].userId] = EmptyMap
             /\ tx[r].userId \in carts'
             /\ carts' = carts]_vars

\* C7 witness: a checkout has just committed; the cart row is there, empty.
C7_Witness ==
    /\ res.op = "checkout" /\ res.status = "ok"
    /\ Client[res.req] \in carts
    /\ cartItems[Client[res.req]] = EmptyMap
    /\ \E k \in 1..Len(orders) : orders[k].userId = Client[res.req]

\* C8: the order of a successful checkout has status "pending" and one order
\* item per cart item, with the cart item's product and quantity and the
\* product's price as it was when the checkout loaded the cart; no committed
\* order (items, prices, total) ever changes afterwards, also when a
\* product's price changes.
C8_OrderSnapshot ==
    [][/\ (pc["r1"] = "idle" /\ tx'["r1"].op = "checkout") =>
             tx'["r1"].cart = [p \in DOMAIN cartItems["u1"] |->
                                 [quantity |-> cartItems["u1"][p], price |-> price[p]]]
       /\ CheckoutCommits("r1") =>
             LET o == orders'[Len(orders')]
                 cart == tx["r1"].cart
             IN  /\ Len(orders') = Len(orders) + 1
                 /\ o.status = "pending"
                 /\ DOMAIN cart = DOMAIN cartItems["u1"]
                 /\ o.orderItems = {[productId |-> p,
                                     quantity |-> cartItems["u1"][p],
                                     price |-> cart[p].price] : p \in DOMAIN cart}
       /\ \A k \in 1..Len(orders) : orders'[k] = orders[k]]_vars

\* C8 witness: a committed order item keeps a price its product no longer has.
C8_Witness ==
    \E k \in 1..Len(orders) : \E it \in orders[k].orderItems :
        it.price # price[it.productId]

\* the exact sum of quantity * price, in hundredths, over rows [quantity, price]
RECURSIVE SumHundredths(_)
SumHundredths(rows) ==
    IF rows = {} THEN 0
    ELSE LET x == CHOOSE y \in rows : TRUE
         IN  x.quantity * x.price + SumHundredths(rows \ {x})

\* C9: the total getCart returns is the exact sum of quantity * price over the
\* items of the cart, and the total of every order is the exact sum of
\* quantity * price over its order items, whatever the order of the items.
C9_TotalExact ==
    /\ (res.op = "getCart" /\ res.status = "ok") =>
          res.total = Number(SumHundredths(
              {[productId |-> p, quantity |-> cartItems[Client[res.req]][p],
                price |-> price[p]] : p \in DOMAIN cartItems[Client[res.req]]}))
    /\ \A k \in 1..Len(orders) :
          orders[k].totalPrice = Number(SumHundredths(orders[k].orderItems))

\* C10: checkout fails with "Cart is empty" both when the user has no Cart
\* row and when the cart has no items, and then creates no cart, no order and
\* changes no stock.
C10_EmptyCart ==
    [][\A r \in Requests :
          ( /\ pc[r] = "idle"
            /\ tx'[r].op = "checkout" \/ CheckoutReturns(r)
            /\ Client[r] \notin carts \/ DOMAIN cartItems[Client[r]] = {} )
          => /\ CheckoutReturns(r)
             /\ res'.status = "Cart is empty"
             /\ UNCHANGED <<carts, cartItems, stockQty, price, orders, transactions>>]_vars

\* C10 witness: checkout of a user without Cart row failed and no Cart row
\* was created.
C10_Witness ==
    /\ res.op = "checkout" /\ res.status = "Cart is empty"
    /\ Client[res.req] \notin carts


\* C11: a checkout of a non-empty cart with a shipping address id that names
\* no address fails with "Shipping address not found" and leaves carts, cart
\* items, stock, orders and transactions unchanged, with nothing pending.
C11_AddressNotFound ==
    [][\A r \in Requests, a \in AddressIds :
          ( /\ checkoutLoadCart(r, Client[r], a)
            /\ a \notin DOMAIN AddressOwner
            /\ Client[r] \in carts /\ DOMAIN cartItems[Client[r]] # {} )
          => /\ CheckoutReturns(r)
             /\ res'.status = "Shipping address not found"
             /\ UNCHANGED <<carts, cartItems, stockQty, price, orders, transactions>>
             /\ tx'[r] = NoTx]_vars

\* C11 witness: a checkout failed on its address and the cart still holds
\* its items.
C11_Witness ==
    /\ res.op = "checkout" /\ res.status = "Shipping address not found"
    /\ Client[res.req] \in carts
    /\ DOMAIN cartItems[Client[res.req]] # {}


\* an upsertItem call of request r passes its checks or fails on one of them
UpsertChecks(r) == pc[r] = "up_item" /\ pc'[r] # "up_item"

\* the quantity of product p in u's cart, 0 when the cart has no such item
ExistingQty(u, p) ==
    IF u \in carts /\ p \in DOMAIN cartItems[u] THEN cartItems[u][p] ELSE 0

\* the quantity an upsertItem call with locals t asks the cart item to have
NewQuantity(t) ==
    IF t.isIncrement THEN ExistingQty(t.userId, t.productId) + t.quantity
    ELSE t.quantity

\* C12: upsertItem fails with INVALID_QUANTITY whenever the new quantity
\* (existing quantity + quantity when incrementing, quantity when setting)
\* exceeds the stock of the product; the failure names the product and the
\* available stock, and stock, cart items and Cart rows stay as they were.
C12_InvalidQuantity ==
    [][\A r \in Requests :
          ( /\ UpsertChecks(r)
            /\ tx[r].productId \in DOMAIN stockQty
            /\ NewQuantity(tx[r]) > stockQty[tx[r].productId] )
          => /\ res'.req = r /\ res'.op = "upsert"
             /\ res'.status = "INVALID_QUANTITY"
             /\ res'.products = {tx[r].productId}
             /\ res'.available = stockQty[tx[r].productId]
             /\ UNCHANGED <<carts, cartItems, stockQty, price, orders, transactions>>
             /\ tx'[r] = NoTx]_vars

\* C12 witness: the first call of a user asked for more than the stock; it
\* failed and the user has no Cart row and no cart item.
C12_Witness ==
    /\ res.op = "upsert" /\ res.status = "INVALID_QUANTITY"
    /\ Client[res.req] \notin carts
    /\ cartItems[Client[res.req]] = EmptyMap

\* C13: upsertItem for a product id that names no product fails with
\* PRODUCT_NOT_FOUND, whatever the quantity and the mode, and commits
\* nothing: the Cart row its transaction upserted is gone with it.
C13_ProductNotFound ==
    [][\A r \in Requests :
          (UpsertChecks(r) /\ tx[r].productId \notin DOMAIN stockQty)
          => /\ res'.req = r /\ res'.op = "upsert"
             /\ res'.status = "PRODUCT_NOT_FOUND"
             /\ UNCHANGED <<carts, cartItems, stockQty, price, orders, transactions>>
             /\ tx'[r] = NoTx]_vars

\* C13 witness: the failed call was the first of its user, whose Cart row
\* does not exist afterwards.
C13_Witness ==
    /\ res.op = "upsert" /\ res.status = "PRODUCT_NOT_FOUND"
    /\ Client[res.req] \notin carts


\* an upsertItem call with locals t sets the quantity to 0
SetZero(t) == t.op = "upsert" /\ ~t.isIncrement /\ t.quantity = 0

\* C14: upsertItem(quantity 0, SET) on a product the cart holds passes its
\* checks, deletes that cart item and no other, and returns the removal
\* confirmation; on a product the cart does not hold it fails with
\* CART_ITEM_NOT_FOUND and changes nothing.
C14_SetZero ==
    [][\A r \in Requests :
          LET t == tx[r]
              u == t.userId
              p == t.productId
          IN  /\ (UpsertChecks(r) /\ SetZero(t) /\ ExistingQty(u, p) > 0)
                    => pc'[r] = "up_delete"
              /\ (pc[r] = "up_delete" /\ pc'[r] = "idle" /\ SetZero(t))
                    => /\ res'.req = r /\ res'.status = "removed"
                       /\ cartItems' = [cartItems EXCEPT ![u] =
                             [x \in DOMAIN cartItems[u] \ {p} |-> cartItems[u][x]]]
              /\ ( /\ UpsertChecks(r) /\ SetZero(t)
                   /\ p \in DOMAIN stockQty /\ ExistingQty(u, p) = 0 )
                    => /\ res'.req = r /\ res'.status = "CART_ITEM_NOT_FOUND"
                       /\ UNCHANGED <<carts, cartItems, stockQty, price, orders,
                                      transactions>>
                       /\ tx'[r] = NoTx]_vars


\* C15: no cart item of quantity 0 or less is ever stored: whatever upsertItem
\* calls of either mode and of any quantity >= 0 were made, every stored
\* cart item has a quantity of at least 1.
C15_NoZeroQuantity ==
    \A u \in Users : \A p \in DOMAIN cartItems[u] : cartItems[u][p] >= 1

\* C15 witness: a quantity-0 update has just removed an item from a cart that
\* keeps another one.
C15_Witness ==
    /\ res.op = "upsert" /\ res.status = "removed"
    /\ res.products \cap DOMAIN cartItems[Client[res.req]] = {}
    /\ cartItems[Client[res.req]] # EmptyMap


\* request r commits a Cart row it inserted: getCart's after its read found
\* none, addOrUpdateCartItem's with the transaction that inserted it
CartInserted(r) ==
    /\ pc'[r] = "idle"
    /\ res'.req = r
    /\ \/ pc[r] = "gc_upsert" /\ ~tx[r].hadCart /\ res'.status = "ok"
       \/ /\ pc[r] \in {"up_delete", "up_write"}
          /\ tx[r].cartCreated
          /\ res'.status \in {"added", "updated", "removed"}

ItemUpserted(r) ==
    /\ pc[r] = "up_write"
    /\ pc'[r] = "idle"
    /\ res'.req = r
    /\ res'.status \in {"added", "updated"}

C18_UpsertResult ==
    [][\A r \in Requests :
          LET t == tx[r]
              u == t.userId
              p == t.productId
          IN  (pc[r] = "up_write" /\ pc'[r] = "idle" /\ ~SetZero(t)) =>
                 /\ res'.req = r
                 /\ res'.status = IF ExistingQty(u, p) = 0 THEN "added" ELSE "updated"
                 /\ DOMAIN cartItems'[u] = DOMAIN cartItems[u] \cup {p}
                 /\ cartItems'[u][p] = NewQuantity(t)
                 /\ \A x \in DOMAIN cartItems[u] \ {p} :
                       cartItems'[u][x] = cartItems[u][x]]_vars

\* C18 witness: an upsert has just taken an item the cart held to quantity 2.
C18_Witness ==
    /\ res.op = "upsert" /\ res.status = "updated"
    /\ \E p \in res.products : cartItems[Client[res.req]][p] = 2


\* C19: deleteItem of a product the user's cart holds removes that cart item
\* and nothing else: the other cart items, the Cart rows, stock, orders and
\* transactions are as before; of a product the cart does not hold it fails
\* with "Cart item not found." and changes nothing.
C19_DeleteItem ==
    [][\A r \in Requests :
          /\ \A p \in ProductIds :
                deleteItem(r, Client[r], p) =>
                   IF ExistingQty(Client[r], p) > 0
                   THEN pc'[r] = "del_write"
                   ELSE /\ res'.req = r /\ res'.op = "delete"
                        /\ res'.status = "Cart item not found."
                        /\ UNCHANGED <<carts, cartItems, stockQty, price, orders,
                                       transactions>>
          /\ (pc[r] = "del_write" /\ pc'[r] = "idle") =>
                LET u == tx[r].userId
                    p == tx[r].productId
                IN  /\ res'.req = r /\ res'.status = "deleted"
                    /\ cartItems' = [cartItems EXCEPT ![u] =
                          [x \in DOMAIN cartItems[u] \ {p} |-> cartItems[u][x]]]
                    /\ UNCHANGED <<carts, stockQty, price, orders, transactions>>]_vars

\* C19 witness: a delete has just removed one item from a cart that keeps
\* another.
C19_Witness ==
    /\ res.op = "delete" /\ res.status = "deleted"
    /\ res.products \cap DOMAIN cartItems[Client[res.req]] = {}
    /\ cartItems[Client[res.req]] # EmptyMap


\* C20: invoice numbers are unique: no two Transaction rows carry the same
\* invoice number, whatever numbers the generator returns.
C20_InvoiceUnique ==
    \A j, k \in 1..Len(transactions) :
        transactions[j].noInvoice = transactions[k].noInvoice => j = k

\* C20 witness: the generator returned a number already stored, the checkout
\* given it failed, and the stored transaction is the only one.
C20_Witness ==
    /\ res.op = "checkout" /\ res.status = "Unique constraint failed"
    /\ Len(transactions) = 1

\* C21: a checkout whose generated invoice number collides with a stored
\* Transaction's number generates another one instead of failing: no checkout
\* ends at its first colliding number, and none returns the raw uniqueness
\* violation of transactions.noInvoice to its caller.
C21_InvoiceRetry ==
    [][\A r \in Requests :
          \A inv \in Invoices :
             ( /\ checkoutTransaction(r, inv)
               /\ \E k \in 1..Len(transactions) : transactions[k].noInvoice = inv )
                => /\ pc'[r] # "idle"
                   /\ res'.status # "Unique constraint failed"]_vars

\* C22: a price that is absent is never counted as 0: calculateTotalPrice
\* given a cart item whose product is not among the products (so that its
\* price is absent) fails instead of returning a total.
C22_FailFastPricing ==
    \A r \in Requests :
        ( /\ res.req = r
          /\ tx[r].op = "calculateTotalPrice"
          /\ \E i \in 1..Len(tx[r].items) :
                tx[r].items[i].productId \notin DOMAIN tx[r].products )
        => res.status # "ok"

\* quantity of product p among the order items of order o
OrderedQty(o, p) ==
    LET rows == {i \in o.orderItems : i.productId = p}
    IN  IF rows = {} THEN 0 ELSE (CHOOSE i \in rows : TRUE).quantity

\* C23: no intermediate checkout state is visible: what a concurrent reader
\* can read (the committed orders, transactions, stock and cart items) moves
\* in one step from the state before a checkout (cart items present, stock
\* undecremented, no order) to the state after it (order and transaction
\* present, stock decremented by the order's items, cart empty); no other
\* step changes orders, transactions or stock, and no step of an open
\* checkout changes anything a reader sees.
C23_NoIntermediateState ==
    [][/\ \A r \in Requests :
             ( /\ pc'[r] # pc[r] \/ tx'[r] # tx[r]
               /\ tx[r].op = "checkout" \/ tx'[r].op = "checkout"
               /\ ~CheckoutCommits(r) ) => UNCHANGED db
       /\ \/ UNCHANGED <<orders, transactions, stockQty>>
          \/ \E r \in Requests :
                /\ CheckoutCommits(r)
                /\ Len(orders') = Len(orders) + 1
                /\ Len(transactions') = Len(transactions) + 1
                /\ LET o == orders'[Len(orders')]
                       t == transactions'[Len(transactions')]
                   IN  /\ SubSeq(orders', 1, Len(orders)) = orders
                       /\ SubSeq(transactions', 1, Len(transactions)) = transactions
                       /\ t.orderId = o.id
                       /\ o.userId = tx[r].userId
                       /\ \A p \in Products :
                             stockQty'[p] = stockQty[p] - OrderedQty(o, p)
                       /\ cartItems[o.userId] # EmptyMap
                       /\ cartItems'[o.userId] = EmptyMap]_vars

\* C23 witness: a request has read the stock of a product (and holds the
\* committed value) while a checkout that has decremented that product and
\* deleted its cart items is about to commit.
C23_Witness ==
    \E r, o \in Requests :
        /\ pc[r] = "up_item"
        /\ pc[o] = "ck_commit"
        /\ tx[r].productId \in tx[o].locked
        /\ tx[r].stock = stockQty[tx[r].productId]
        /\ tx[o].cleared # {}
        /\ orders = <<>>

\* statuses of the calls that succeeded
Succeeded == {"none", "ok", "added", "updated", "removed", "deleted"}

\* C24: every failure of upsertItem, deleteItem and checkout reaches the
\* caller with a kind of the taxonomy and its code: the response to a failed
\* call never carries UNKNOWN_ERROR with status 500.
C24_StructuredFailures ==
    (res.op \in {"upsert", "delete", "checkout"} /\ res.status \notin Succeeded)
       => LET e == thrown(res.status)
          IN  respondError(e.error, e.code) \in
                 { [error |-> "PRODUCT_NOT_FOUND", status |-> 404],
                   [error |-> "INVALID_QUANTITY", status |-> 400],
                   [error |-> "CART_ITEM_NOT_FOUND", status |-> 404],
                   [error |-> "EMPTY_CART", status |-> 400],
                   [error |-> "ADDRESS_NOT_FOUND", status |-> 404],
                   [error |-> "INSUFFICIENT_STOCK", status |-> 400] }

\* users for whom a request takes this step
Acting == {tx[r].userId : r \in {x \in Requests : pc'[x] # pc[x] \/ tx'[x] # tx[x]}}
             \cup {tx'[r].userId : r \in {x \in Requests : pc'[x] # pc[x] \/ tx'[x] # tx[x]}}

C26_ValidatedIsOrdered ==
    [][\A r \in Requests :
          (pc[r] = "ck_products" /\ pc'[r] = "ck_transaction") =>
             LET order == CHOOSE o \in tx'[r].order : TRUE
                 validated == tx'[r].items
             IN  /\ DOMAIN validated = {i.productId : i \in order.orderItems}
                 /\ \A i \in order.orderItems :
                       /\ validated[i.productId] = i.quantity
                       /\ decrementStock(tx'[r].cart)[i.productId] = i.quantity]_vars

\* C27: of two concurrent checkouts of one user on the same cart contents at
\* most one creates an order from those cart items and decrements the stock
\* for them: a checkout commits its order only while the cart holds the items
\* it ordered.
C27_OneOrderPerCart ==
    [][\A r \in Requests :
          CheckoutCommits(r) =>
             \A p \in DOMAIN tx[r].cart :
                p \in DOMAIN cartItems[tx[r].userId]]_vars

\* C28: the cart clearing of a checkout deletes only cart items that are in
\* its order, with the quantity ordered: no item added or increased by a
\* concurrent upsert after the checkout loaded the cart is deleted.
C28_ClearsOnlyOrdered ==
    [][\A r \in Requests :
          CheckoutCommits(r) =>
             LET rows == cartItems[tx[r].userId]
             IN  \A p \in DOMAIN rows \ DOMAIN cartItems'[tx[r].userId] :
                    /\ p \in DOMAIN tx[r].cart
                    /\ tx[r].cart[p].quantity = rows[p]]_vars

\* quantity of product p in the order items of the first n committed orders
RECURSIVE SoldQty(_, _)
SoldQty(n, p) ==
    IF n = 0 THEN 0 ELSE SoldQty(n - 1, p) + OrderedQty(orders[n], p)

\* C29: stock conservation: in every committed state, for each product, the
\* stock plus the quantities of all order items of the product is the stock
\* the product started with; concurrent decrements add up.
C29_StockConservation ==
    \A p \in Products : stockQty[p] + SoldQty(Len(orders), p) = InitStock[p]

\* C29 witness: two checkouts that both read the stock of p1 before either
\* committed have both decremented it (the stock fell below 0), and both
\* orders hold p1.
C29_Witness ==
    /\ Len(orders) = 2
    /\ \A k \in 1..2 : OrderedQty(orders[k], "p1") > 0
    /\ stockQty["p1"] < 0

\* the order items of order o with product ids S, listed in the order ord
ItemRows(o, ord) ==
    [i \in 1..Len(ord) |->
        CHOOSE row \in o.orderItems : row.productId = ord[i]]

\* C30: the total price stored with every committed order is the sum over
\* the order's own items of quantity x price, also when the price of a
\* product changes between the checkout's load of the cart and its load of
\* the products.
C30_TotalOfOwnItems ==
    \A k \in 1..Len(orders) :
        \E ord \in Orderings({i.productId : i \in orders[k].orderItems}) :
            orders[k].totalPrice = totalOf(ItemRows(orders[k], ord))

\* the writes request r has issued in its open transaction
PendingWrites(r) ==
    tx[r].order # {} \/ tx[r].transaction # {} \/ tx[r].locked # {} \/ tx[r].cleared # {}

\* C31: checkout evaluates its checks in the order empty cart, shipping
\* address, stock, and a call that fails several of them reports the earliest:
\* an empty cart is reported whatever the address is, a missing address
\* whatever the stock is, and insufficient stock only for a non-empty cart
\* with an existing address.  No order, stock decrement, transaction or cart
\* clearing is issued before the stock validation has passed on what the call
\* read, and nothing is stored before the commit.
C31_CheckOrder ==
    [][\A r \in Requests :
          /\ \A a \in AddressIds :
                checkoutLoadCart(r, Client[r], a) =>
                   LET u == Client[r]
                       empty == u \notin carts \/ DOMAIN cartItems[u] = {}
                   IN  /\ empty => CheckoutReturns(r) /\ res'.status = "Cart is empty"
                       /\ (~empty /\ a \notin DOMAIN AddressOwner) =>
                             CheckoutReturns(r) /\ res'.status = "Shipping address not found"
                       /\ ~PendingWrites(r)'
          /\ (CheckoutReturns(r) /\ res'.status = "Insufficient stock for product(s)") =>
                /\ pc[r] = "ck_products"
                /\ DOMAIN tx[r].cart # {}
                /\ tx[r].addr \in DOMAIN AddressOwner
                /\ ~PendingWrites(r)
          /\ (tx'[r].op = "checkout" /\ PendingWrites(r)') =>
                /\ pc[r] # "idle"
                /\ insufficientStockProducts(tx'[r].items,
                      [p \in DOMAIN tx'[r].products |-> tx'[r].products[p].stockQty]) = {}
          /\ (tx[r].op = "checkout" /\ ~CheckoutCommits(r) /\ tx'[r] # tx[r]) =>
                UNCHANGED db]_vars

\* C31 witness: a checkout failed on its address although its cart also asks
\* for more of a product than the stock holds.
C31_Witness ==
    /\ res.op = "checkout" /\ res.status = "Shipping address not found"
    /\ \E p \in DOMAIN cartItems[Client[res.req]] :
          cartItems[Client[res.req]][p] > stockQty[p]

\* C32: validateProductStock treats a cart item whose product is not in the
\* stock map as an item of a product with no stock: a checkout validating
\* such an item fails with insufficient stock and names the product.
C32_AbsentIsZeroStock ==
    [][\A r \in Requests :
          (pc[r] = "ck_products" /\ pc'[r] # "ck_products") =>
             LET items == cartItems[tx[r].userId]
                 productStock == DOMAIN tx[r].cart \cap DOMAIN stockQty
             IN  \A p \in DOMAIN items \ productStock :
                    /\ CheckoutReturns(r)
                    /\ res'.status = "Insufficient stock for product(s)"
                    /\ p \in res'.products]_vars

\* C33: when an upsertItem call commits a cart item, the quantity the item
\* then has does not exceed the stock the product then has, also when two
\* calls increment the same item of one user at the same time.
C33_QuantityWithinStock ==
    [][\A r \in Requests :
          (pc[r] = "up_write" /\ pc'[r] = "idle" /\ res'.status \in {"added", "updated"}) =>
             cartItems'[tx[r].userId][tx[r].productId] <= stockQty'[tx[r].productId]]_vars

\* C34: every checkout terminates: a request that has opened a checkout
\* transaction returns in the end, with the transaction committed or rolled
\* back, whatever the interleaving; two checkouts that take the row locks of
\* the same two products in opposite order do not wait for each other forever.
C34_CheckoutTerminates ==
    \A r \in Requests : (tx[r].op = "checkout") ~> (pc[r] = "idle")

\* C34 witness: two checkouts had each locked the product the other needed
\* next; one of them was rolled back and the other one is going on.
C34_Witness ==
    /\ res.op = "checkout" /\ res.status = "deadlock detected"
    /\ \E o \in Requests \ {res.req} :
          /\ tx[o].op = "checkout"
          /\ tx[o].locked # {} /\ tx[o].todo # {}

\* C35: the shipping address of every stored order is an address of the
\* order's user: a checkout naming an address of another user stores no order.
C35_OwnAddress ==
    \A k \in 1..Len(orders) :
        /\ orders[k].shippingAddressId \in DOMAIN AddressOwner
        /\ AddressOwner[orders[k].shippingAddressId] = orders[k].userId

\* the row a processToken call of request r has read
TokenId(r) == (CHOOSE x \in tx[r].tokenRecord : TRUE).id

\* C36: a refresh token is used once: a processToken call made with a token
\* whose row a former call has revoked (a refresh or a logout that succeeded)
\* fails with INVALID_TOKEN and status 401, and a call that does not
\* regenerate (a logout) stores no token row and returns no token.
C36_SingleUse ==
    [][\A r \in Requests :
          /\ \A refreshToken \in RefreshTokens, userAgent \in RequestAgents,
                isRegenerate \in BOOLEAN :
                ( /\ processTokenFind(r, refreshToken, userAgent, isRegenerate)
                  /\ refreshToken.kind = "refresh"
                  /\ userTokens[refreshToken.jwtId].revoked )
                => /\ res'.req = r /\ res'.op = "processToken"
                   /\ res'.status = "INVALID_TOKEN"
                   /\ respondError(tokenError(res'.status).error,
                                   tokenError(res'.status).code).status = 401
          /\ ( /\ tx[r].op = "processToken" /\ ~tx[r].isRegenerate
               /\ tx'[r] # tx[r] )
                => /\ DOMAIN userTokens' = DOMAIN userTokens
                   /\ pc'[r] # "pt_create"
                   /\ res'.req = r => res'.token = 0]_vars

\* C37: a refresh whose user agent does not match the one stored with the
\* token fails with USER_AGENT_MISMATCH and leaves the token revoked in the
\* stored row, so that a refresh from the matching user agent that follows
\* fails too.
C37_MismatchRevokes ==
    [][\A r \in Requests :
          ( /\ pc[r] = "pt_update"
            /\ tx[r].isRegenerate
            /\ tx[r].userAgent # NoUserAgent
            /\ \E x \in tx[r].tokenRecord :
                  /\ x.userAgent # NoUserAgent
                  /\ ~compareUserAgent(tx[r].userAgent, x.userAgent)
            /\ pc'[r] # "pt_update" )
          => /\ res'.req = r /\ res'.status = "USER_AGENT_MISMATCH"
             /\ userTokens'[TokenId(r)].revoked]_vars

\* C38: of two refresh requests made with one refresh token at the same time
\* at most one returns a new pair of tokens: never have two requests both
\* committed the refresh of the same token.
C38_OnePairPerToken ==
    \A r \in Requests, o \in Requests :
        (r # o /\ pc[r] = "pt_create" /\ pc[o] = "pt_create") =>
            TokenId(r) # TokenId(o)
====
